---- MODULE Spec2Model ----
(***************************************************************************)
(* remoteplay-inviter: the connection supervisor of main.rs, the handshake *)
(* error classifier of ws_error_handler.rs and the status console of       *)
(* console.rs.                                                             *)
(*                                                                         *)
(* Spec        : the supervisor (the primary task of main), every console  *)
(*               call taken as one step whose outcome is ok or an I/O      *)
(*               error.                                                    *)
(* FairSpec    : Spec with the primary task scheduled fairly.              *)
(* ConsoleSpec : the console functions step by step, called by the primary *)
(*               task and by the background poller at the same time.       *)
(***************************************************************************)
EXTENDS Integers, Sequences, FiniteSets, TLC

\* ------------------------------------------------------------------ bounds

\* Largest delay of RetrySec (retry.rs is not part of the sources).
MaxDelay == 8
\* The attempt counter saturates here.
MaxAttempts == 3
\* Console calls one task issues in ConsoleSpec.
MaxCalls == 2
\* Console steps that fail with an I/O error in ConsoleSpec.
MaxIoErrors == 1

VARIABLES
    \* ---- supervisor (main.rs)
    pc,             \* position of the primary task in main
    reconnect,      \* main.rs:97
    retry_sec,      \* main.rs:99, the value held by RetrySec
    sec,            \* main.rs:266, the delay last returned by next(); 0 before
    conn,           \* outcome of the connect of the current attempt
    result,         \* the value of `result` (main.rs:167) of the current attempt
    message,        \* what the last read of the current attempt returned
    event,          \* outcome of the last send / handler call
    frameSent,      \* frames written to the write half while handling `message`
    frameResets,    \* calls of retry_sec.reset() while handling `message`
    healthy,        \* a Ping was answered or a Text dispatched in this attempt
    gotPingOrText,  \* a Ping or Text frame was received in this attempt
    retryAtStart,   \* retry_sec when the current attempt started
    resetSince,     \* reset() was called since the last next() (or new())
    attempts,       \* attempts started so far, saturating at MaxAttempts
    failedBefore,   \* an earlier attempt ended with an error
    exitRequested,  \* the handler returned Ok(true)
    startup,        \* how the startup phase ended
    log,            \* console calls of the current episode (startup or attempt)
    browser,        \* webbrowser::open calls of the current attempt
    pollerStarted,  \* handler.run_steam_callbacks() was called
    handlersActive, \* calls of the handler that have not returned
    nextCalls,      \* calls of retry_sec.next() since the attempt started
    sleepFor,       \* seconds handed to sleep since the attempt started; 0 if none
    connectedBefore, \* the handshake of an earlier attempt succeeded
    \* ---- console (console.rs)
    LAST_LINE,      \* console.rs:8
    lockedBy,       \* holder of the LAST_LINE mutex
    stdoutBuf,      \* bytes queued in the process-wide stdout buffer
    screen,         \* what the terminal shows
    cpc,            \* position of each task inside its console call
    call,           \* the console call each task is in
    rendered,       \* what the update_line of each task read from LAST_LINE
    calls,          \* console calls each task has issued
    ioErrors,       \* console steps that failed
    overlapped      \* the current call of each task ran alongside another call

supVars == <<pc, reconnect, retry_sec, sec, conn, result, message, event,
             frameSent, frameResets, healthy, gotPingOrText, retryAtStart,
             resetSince, attempts, failedBefore, exitRequested, startup, log,
             browser, pollerStarted, handlersActive, nextCalls, sleepFor,
             connectedBefore>>

conVars == <<LAST_LINE, lockedBy, stdoutBuf, screen, cpc, call, rendered,
             calls, ioErrors, overlapped>>

vars == <<supVars, conVars>>

\* ------------------------------------------------------- RetrySec (retry.rs)

InitialDelay == 1

Min(a, b) == IF a < b THEN a ELSE b

RetrySecNew == InitialDelay

RetrySecReset == InitialDelay

\* next() returns the current delay ...
RetrySecNextValue(rs) == rs

RetrySecNextState_Uncapped(rs) == rs * 2

\* ... and advances the state towards the capped maximum.
RetrySecNextState(rs) == Min(rs * 2, MaxDelay)

\* --------------------------------------------------------- console outcomes

\* println! / eprintln! return Err on an I/O error.
LineOut == {"ok", "err"}

\* printdoc! returns Err from clear_line / update_line; the print! inside
\* indoc::printdoc! panics when stdout cannot be written.
DocOut == {"ok", "err", "panic"}

Entry(fn, line, out) == [fn |-> fn, line |-> line, out |-> out]

\* The `?` after a console call in main: Err leaves main, a panic ends the
\* process.
After(out, next) ==
    CASE out = "ok" -> next
      [] out = "err" -> "returned_err"
      [] out = "panic" -> "panicked"

\* --------------------------------- handle_ws_error (ws_error_handler.rs)

Http400 ==
    {"http400_no_header", "http400_non_text", "http400_bad_json",
     "http400_outdated", "http400_other_msg", "http400_other_nomsg"}

WsErrors == Http400 \cup {"http_other", "transport"}

\* The header lookup, to_str and serde_json::from_str of the 'tryblock.
XErrorParse(err) ==
    CASE err = "http400_no_header" -> "err_no_header"
      [] err = "http400_non_text" -> "err_non_text"
      [] err = "http400_bad_json" -> "err_json"
      [] err = "http400_outdated" -> "outdated"
      [] err = "http400_other_msg" -> "other_msg"
      [] err = "http400_other_nomsg" -> "other_nomsg"

Outcome(cs, opens, ret) == [calls |-> cs, browser |-> opens, ret |-> ret]

\* `if let Err(err) = result { console::eprintln!(..)?; }` then Ok(()).
ReportParseFailure_Propagates(pre) ==
    { Outcome(pre \o <<Entry("eprintln", "classifier_err", o)>>, 0, "err_console")
        : o \in LineOut }

ReportParseFailure(pre) ==
    { Outcome(pre \o <<Entry("eprintln", "classifier_err", o)>>, 0,
              IF o = "ok" THEN "ok" ELSE "err_console") : o \in LineOut }

\* A failed webbrowser::open makes the classifier return an error.
AfterOpen_Propagates(opened) == IF opened THEN "ok" ELSE "err_browser"

\* ws_error_handler.rs:47, `let _ = webbrowser::open(&download)`: what the
\* 'tryblock yields once the open returned, having succeeded or not.
AfterOpen(opened) == "ok"

\* A printdoc! notice inside the 'tryblock; `opens` browser-open calls
\* follow it when it was written.
Notice(line, opens) ==
    UNION { CASE d = "ok" ->
                   IF opens > 0
                   THEN {Outcome(<<Entry("printdoc", line, "ok")>>, opens,
                                 AfterOpen(b)) : b \in BOOLEAN}
                   ELSE {Outcome(<<Entry("printdoc", line, "ok")>>, 0, "ok")}
              [] d = "panic" -> {Outcome(<<Entry("printdoc", line, "panic")>>, 0, "panic")}
              [] d = "err" -> ReportParseFailure(<<Entry("printdoc", line, "err")>>)
            : d \in DocOut }

\* The possible outcomes of handle_ws_error(err): the console calls it made,
\* the browser-open calls it made and what it returned.
HandleWsError(err) ==
    IF err \in Http400
    THEN LET parsed == XErrorParse(err) IN
         CASE parsed = "outdated" -> Notice("update_notice", 1)
           [] parsed = "other_msg" -> Notice("conn_error_notice", 0)
           [] parsed = "other_nomsg" -> {Outcome(<<>>, 0, "ok")}
           [] OTHER -> ReportParseFailure(<<>>)
    ELSE IF err = "http_other"
    THEN {Outcome(<<>>, 0, "err_http")}
    ELSE {Outcome(<<>>, 0, "err_connect")}

\* ------------------------------------------------------ supervisor (main.rs)

ErrKinds ==
    {"err_console", "err_connect_timeout", "err_http", "err_connect",
     "err_read_timeout", "err_receive", "err_pong_send", "err_json",
     "err_handler"}

IsErr(r) == r \in ErrKinds

ConnOutcomes == {"timeout", "ok"} \cup WsErrors

Msg(t, p) == [type |-> t, payload |-> p]

NoMsg == Msg("None", 0)

Payloads == {1, 2}

\* Some(Ok(frame)) and Some(Err(_)) results of read.next(). A Text frame
\* carries 1 when its text is a ServerMessage in JSON and 0 when it is not.
Frames ==
    {Msg("Close", 0), Msg("Binary", 0), Msg("Pong", 0), Msg("Frame", 0),
     Msg("RecvErr", 0), Msg("Text", 0), Msg("Text", 1)}
    \cup {Msg("Ping", p) : p \in Payloads}

Pong(p) == Msg("Pong", p)

Arm(p, r, sent, retry, resets, ok) ==
    [pc |-> p, result |-> r, sent |-> sent, retry |-> retry,
     resets |-> resets, healthy |-> ok]

\* main.rs:185-194, what main does with the value handle_ws_error returned.
OnWsError_Retries(ret) ==
    CASE ret = "ok" -> [pc |-> "attempt_end", result |-> "ok"]
      [] ret = "panic" -> [pc |-> "panicked", result |-> "none"]
      [] OTHER -> [pc |-> "attempt_end", result |-> ret]

OnWsError(ret) ==
    CASE ret = "ok" -> [pc |-> "prompt", result |-> "none"]
      [] ret = "panic" -> [pc |-> "panicked", result |-> "none"]
      [] OTHER -> [pc |-> "attempt_end", result |-> ret]

\* main.rs:196-206, after a successful handshake.
OnHandshake_Resets(rec, out, rs) ==
    [line |-> IF rec THEN "reconnected" ELSE "connected",
     pc |-> IF out = "ok" THEN "reading" ELSE "attempt_end",
     result |-> IF out = "ok" THEN "none" ELSE "err_console",
     retry |-> RetrySecReset]

\* The handshake line does not look at the reconnect flag.
OnHandshake_Connected(rec, out, rs) ==
    [line |-> "connected",
     pc |-> IF out = "ok" THEN "reading" ELSE "attempt_end",
     result |-> IF out = "ok" THEN "none" ELSE "err_console",
     retry |-> rs]

OnHandshake(rec, out, rs) ==
    [line |-> IF rec THEN "reconnected" ELSE "connected",
     pc |-> IF out = "ok" THEN "reading" ELSE "attempt_end",
     result |-> IF out = "ok" THEN "none" ELSE "err_console",
     retry |-> rs]

\* main.rs:223-235, the Ping arm.
OnPing_NoReset(ping, sendOk, rs) ==
    IF sendOk
    THEN Arm("reading", "none", <<Pong(ping)>>, rs, 0, TRUE)
    ELSE Arm("attempt_end", "err_pong_send", <<>>, rs, 0, FALSE)

OnPing_EmptyPong(ping, sendOk, rs) ==
    IF sendOk
    THEN Arm("reading", "none", <<Pong(0)>>, RetrySecReset, 1, TRUE)
    ELSE Arm("attempt_end", "err_pong_send", <<>>, rs, 0, FALSE)

OnPing(ping, sendOk, rs) ==
    IF sendOk
    THEN Arm("reading", "none", <<Pong(ping)>>, RetrySecReset, 1, TRUE)
    ELSE Arm("attempt_end", "err_pong_send", <<>>, rs, 0, FALSE)

\* main.rs:236-241, serde_json::from_str of a Text frame.
OnText_DropsInvalid(valid) ==
    IF valid = 1
    THEN [pc |-> "handling", result |-> "none", invoked |-> TRUE]
    ELSE [pc |-> "reading", result |-> "none", invoked |-> FALSE]

\* The handler started as a task of its own instead of being awaited.
OnText_Spawns(valid) ==
    IF valid = 1
    THEN [pc |-> "reading", result |-> "none", invoked |-> TRUE]
    ELSE [pc |-> "attempt_end", result |-> "err_json", invoked |-> FALSE]

OnText(valid) ==
    IF valid = 1
    THEN [pc |-> "handling", result |-> "none", invoked |-> TRUE]
    ELSE [pc |-> "attempt_end", result |-> "err_json", invoked |-> FALSE]

HandlerResults == {"exit", "continue", "error"}

\* main.rs:243-252, what main does with the handler's result. `sent` is
\* what the handler wrote to the write half.
OnHandlerResult_ExitRetries(r, sent, rs) ==
    CASE r = "exit" -> Arm("attempt_end", "ok", sent, rs, 0, FALSE)
      [] r = "continue" -> Arm("reading", "none", sent, RetrySecReset, 1, TRUE)
      [] r = "error" -> Arm("attempt_end", "err_handler", sent, rs, 0, FALSE)

OnHandlerResult(r, sent, rs) ==
    CASE r = "exit" -> Arm("prompt", "none", sent, rs, 0, FALSE)
      [] r = "continue" -> Arm("reading", "none", sent, RetrySecReset, 1, TRUE)
      [] r = "error" -> Arm("attempt_end", "err_handler", sent, rs, 0, FALSE)

\* The error line is written whatever the attempt returned.
ErrorReport_Always(res, out) == <<Entry("eprintln", "attempt_err", out)>>

\* main.rs:261-263, `if let Err(err) = result { console::eprintln!(..)?; }`.
ErrorReport(res, out) ==
    IF IsErr(res) THEN <<Entry("eprintln", "attempt_err", out)>> ELSE <<>>

Bump(n) == Min(n + 1, MaxAttempts)

\* main.rs:102-157, the 'tryblock that builds the URL: the endpoint
\* configuration (error, none, custom), the client configuration, the
\* println! of a custom endpoint, the parse and the build of the URI.
ResolveUrlResult(endpoint, configOk, out, parseOk, buildOk) ==
    IF endpoint = "err" \/ ~configOk THEN "err"
    ELSE IF endpoint = "custom" /\ out # "ok" THEN "err"
    ELSE IF ~parseOk \/ ~buildOk THEN "err"
    ELSE "ok"

\* main.rs:127, the custom endpoint line is written once both
\* configurations were read.
ResolveUrlCalls(endpoint, configOk, out) ==
    IF endpoint = "custom" /\ configOk
    THEN <<Entry("println", "custom_endpoint", out)>>
    ELSE <<>>

\* A connect that timed out taken for an attempt that ended cleanly.
OnConnectTimeout_Clean == [pc |-> "attempt_end", result |-> "ok"]

\* main.rs:176-184, the connect timed out.
OnConnectTimeout == [pc |-> "attempt_end", result |-> "err_connect_timeout"]

\* The end of the stream leaves the retry loop.
OnRead_EndStops(m) ==
    CASE m.type = "Timeout" -> [pc |-> "attempt_end", result |-> "err_read_timeout"]
      [] m.type = "End" -> [pc |-> "prompt", result |-> "none"]
      [] OTHER -> [pc |-> "process", result |-> "none"]

\* The end of the stream reported as a receive error.
OnRead_EndFails(m) ==
    CASE m.type = "Timeout" -> [pc |-> "attempt_end", result |-> "err_read_timeout"]
      [] m.type = "End" -> [pc |-> "attempt_end", result |-> "err_receive"]
      [] OTHER -> [pc |-> "process", result |-> "none"]

\* main.rs:209-219, what read.next() under the idle timeout returned.
OnRead(m) ==
    CASE m.type = "Timeout" -> [pc |-> "attempt_end", result |-> "err_read_timeout"]
      [] m.type = "End" -> [pc |-> "attempt_end", result |-> "ok"]
      [] OTHER -> [pc |-> "process", result |-> "none"]

\* Every frame that is not an error resets the backoff.
OnMessage_OtherResets(m, sendOk, rs) ==
    CASE m.type = "Close" -> Arm("attempt_end", "ok", <<>>, rs, 0, FALSE)
      [] m.type = "Ping" -> OnPing(m.payload, sendOk, rs)
      [] m.type = "Text" ->
            Arm(OnText(m.payload).pc, OnText(m.payload).result, <<>>, rs, 0, FALSE)
      [] m.type = "RecvErr" -> Arm("attempt_end", "err_receive", <<>>, rs, 0, FALSE)
      [] OTHER -> Arm("reading", "none", <<>>, RetrySecReset, 1, FALSE)

\* main.rs:221-256, the match on the message.
OnMessage(m, sendOk, rs) ==
    CASE m.type = "Close" -> Arm("attempt_end", "ok", <<>>, rs, 0, FALSE)
      [] m.type = "Ping" -> OnPing(m.payload, sendOk, rs)
      [] m.type = "Text" ->
            Arm(OnText(m.payload).pc, OnText(m.payload).result, <<>>, rs, 0, FALSE)
      [] m.type = "RecvErr" -> Arm("attempt_end", "err_receive", <<>>, rs, 0, FALSE)
      [] OTHER -> Arm("reading", "none", <<>>, rs, 0, FALSE)

SupInit ==
    /\ pc = "start"
    /\ reconnect = FALSE
    /\ retry_sec = RetrySecNew
    /\ sec = 0
    /\ conn = "none"
    /\ result = "none"
    /\ message = NoMsg
    /\ event = "none"
    /\ frameSent = <<>>
    /\ frameResets = 0
    /\ healthy = FALSE
    /\ gotPingOrText = FALSE
    /\ retryAtStart = RetrySecNew
    /\ resetSince = TRUE
    /\ attempts = 0
    /\ failedBefore = FALSE
    /\ exitRequested = FALSE
    /\ startup = "running"
    /\ log = <<>>
    /\ browser = 0
    /\ pollerStarted = FALSE
    /\ handlersActive = 0
    /\ nextCalls = 0
    /\ sleepFor = 0
    /\ connectedBefore = FALSE

\* main.rs:43-53
Banner ==
    /\ pc = "start"
    /\ \E o \in DocOut :
        /\ log' = Append(log, Entry("printdoc", "banner", o))
        /\ pc' = After(o, "args")
    /\ UNCHANGED <<reconnect, retry_sec, sec, conn, result, message, event,
                   frameSent, frameResets, healthy, gotPingOrText, retryAtStart,
                   resetSince, attempts, exitRequested, startup, browser,
                   pollerStarted, failedBefore,
                   handlersActive, nextCalls, sleepFor, connectedBefore, conVars>>

\* main.rs:55-75
Args ==
    /\ pc = "args"
    /\ \E flag \in {"version", "help", "none"} :
        \/ /\ flag = "version"
           /\ \E o \in LineOut :
                /\ log' = Append(log, Entry("println", "version", o))
                /\ pc' = After(o, "returned_ok")
        \/ /\ flag = "help"
           /\ \E o \in DocOut :
                /\ log' = Append(log, Entry("printdoc", "help", o))
                /\ pc' = After(o, "returned_ok")
        \/ /\ flag = "none"
           /\ log' = log
           /\ pc' = "steam"
    /\ UNCHANGED <<reconnect, retry_sec, sec, conn, result, message, event,
                   frameSent, frameResets, healthy, gotPingOrText, retryAtStart,
                   resetSince, attempts, exitRequested, startup, browser,
                   pollerStarted, failedBefore,
                   handlersActive, nextCalls, sleepFor, connectedBefore, conVars>>

\* main.rs:77-99
SteamInit ==
    /\ pc = "steam"
    /\ \/ /\ pc' = "resolve"
          /\ pollerStarted' = TRUE
          /\ reconnect' = FALSE
          /\ retry_sec' = RetrySecNew
          /\ UNCHANGED <<log, startup>>
       \/ \E o \in LineOut :
          /\ log' = Append(log, Entry("eprintln", "steam_err", o))
          /\ startup' = "steam_failed"
          /\ pc' = After(o, "prompt")
          /\ UNCHANGED <<pollerStarted, reconnect, retry_sec>>
    /\ UNCHANGED <<sec, conn, result, message, event, frameSent, frameResets,
                   healthy, gotPingOrText, retryAtStart, resetSince, attempts,
                   exitRequested, browser, failedBefore,
                   handlersActive, nextCalls, sleepFor, connectedBefore, conVars>>

\* main.rs:101-164
ResolveUrl ==
    /\ pc = "resolve"
    /\ \E endpoint \in {"err", "none", "custom"}, configOk \in BOOLEAN,
          o1 \in LineOut, parseOk \in BOOLEAN, buildOk \in BOOLEAN, o2 \in LineOut :
        LET url == ResolveUrlResult(endpoint, configOk, o1, parseOk, buildOk)
            pre == log \o ResolveUrlCalls(endpoint, configOk, o1)
        IN IF url = "ok"
           THEN /\ log' = pre
                /\ startup' = "ok"
                /\ pc' = "loop"
           ELSE /\ log' = Append(pre, Entry("eprintln", "startup_err", o2))
                /\ startup' = "url_failed"
                /\ pc' = After(o2, "prompt")
    /\ UNCHANGED <<reconnect, retry_sec, sec, conn, result, message, event,
                   frameSent, frameResets, healthy, gotPingOrText, retryAtStart,
                   resetSince, attempts, exitRequested, browser, pollerStarted,
                   failedBefore,
                   handlersActive, nextCalls, sleepFor, connectedBefore, conVars>>

\* main.rs:166-173, the top of the loop.
AttemptStart ==
    /\ pc = "loop"
    /\ attempts' = Bump(attempts)
    /\ retryAtStart' = retry_sec
    /\ conn' = "none"
    /\ message' = NoMsg
    /\ event' = "none"
    /\ frameSent' = <<>>
    /\ frameResets' = 0
    /\ healthy' = FALSE
    /\ gotPingOrText' = FALSE
    /\ browser' = 0
    /\ nextCalls' = 0
    /\ sleepFor' = 0
    /\ connectedBefore' = (connectedBefore \/ conn = "ok")
    /\ IF reconnect
       THEN \E o \in LineOut :
            /\ log' = <<Entry("println", "reconnecting", o)>>
            /\ pc' = IF o = "ok" THEN "connecting" ELSE "attempt_end"
            /\ result' = IF o = "ok" THEN "none" ELSE "err_console"
       ELSE /\ log' = <<>>
            /\ pc' = "connecting"
            /\ result' = "none"
    /\ UNCHANGED <<reconnect, retry_sec, sec, resetSince, exitRequested,
                   startup, pollerStarted, failedBefore,
                   handlersActive, conVars>>

\* main.rs:175-206
Connect ==
    /\ pc = "connecting"
    /\ \E c \in ConnOutcomes :
        /\ conn' = c
        /\ \/ /\ c = "timeout"
              /\ pc' = OnConnectTimeout.pc
              /\ result' = OnConnectTimeout.result
              /\ UNCHANGED <<log, browser, retry_sec, resetSince>>
           \/ /\ c = "ok"
              /\ \E o \in LineOut :
                  LET h == OnHandshake(reconnect, o, retry_sec) IN
                  /\ log' = Append(log, Entry("println", h.line, o))
                  /\ pc' = h.pc
                  /\ result' = h.result
                  /\ retry_sec' = h.retry
                  /\ resetSince' = (resetSince \/ h.retry # retry_sec)
              /\ UNCHANGED browser
           \/ /\ c \in WsErrors
              /\ \E w \in HandleWsError(c) :
                  /\ log' = log \o w.calls
                  /\ browser' = browser + w.browser
                  /\ pc' = OnWsError(w.ret).pc
                  /\ result' = OnWsError(w.ret).result
              /\ UNCHANGED <<retry_sec, resetSince>>
    /\ UNCHANGED <<reconnect, sec, message, event, frameSent, frameResets,
                   healthy, gotPingOrText, retryAtStart, attempts,
                   exitRequested, startup, pollerStarted, failedBefore,
                   handlersActive, nextCalls, sleepFor, connectedBefore, conVars>>

\* main.rs:209-219, one read.next() under the idle timeout.
Read ==
    /\ pc = "reading"
    /\ \E m \in Frames \cup {Msg("Timeout", 0), Msg("End", 0)} :
        /\ message' = m
        /\ pc' = OnRead(m).pc
        /\ result' = OnRead(m).result
        /\ gotPingOrText' = (gotPingOrText \/ m.type \in {"Ping", "Text"})
    /\ event' = "none"
    /\ frameSent' = <<>>
    /\ frameResets' = 0
    /\ UNCHANGED <<reconnect, retry_sec, sec, conn, healthy, retryAtStart,
                   resetSince, attempts, exitRequested, startup, log, browser,
                   pollerStarted, failedBefore,
                   handlersActive, nextCalls, sleepFor, connectedBefore, conVars>>

\* main.rs:243, calls of the handler that processing the frame m starts.
Invocations(m) ==
    IF m.type = "Text" /\ OnText(m.payload).invoked THEN 1 ELSE 0

\* main.rs:221-256, up to the call of the handler.
Process ==
    /\ pc = "process"
    /\ \E sendOk \in BOOLEAN :
        LET a == OnMessage(message, sendOk, retry_sec) IN
        /\ pc' = a.pc
        /\ result' = a.result
        /\ frameSent' = a.sent
        /\ retry_sec' = a.retry
        /\ frameResets' = a.resets
        /\ healthy' = (healthy \/ a.healthy)
        /\ resetSince' = (resetSince \/ a.resets > 0)
        /\ event' = IF message.type # "Ping" THEN "none"
                    ELSE IF sendOk THEN "pong_sent" ELSE "pong_send_failed"
        /\ handlersActive' = handlersActive + Invocations(message)
    /\ UNCHANGED <<reconnect, sec, conn, message, gotPingOrText, retryAtStart,
                   attempts, exitRequested, startup, log, browser,
                   pollerStarted, failedBefore,
                   nextCalls, sleepFor, connectedBefore, conVars>>

HandlerEvent(r) ==
    CASE r = "exit" -> "handler_exit"
      [] r = "continue" -> "handler_continue"
      [] r = "error" -> "handler_error"

\* main.rs:243-252, handler.handle_server_message returns.
HandlerReturn ==
    /\ pc = "handling"
    /\ \E r \in HandlerResults, sent \in {<<>>, <<Msg("Text", 1)>>} :
        LET a == OnHandlerResult(r, sent, retry_sec) IN
        /\ event' = HandlerEvent(r)
        /\ exitRequested' = (exitRequested \/ r = "exit")
        /\ handlersActive' = handlersActive - 1
        /\ pc' = a.pc
        /\ result' = a.result
        /\ frameSent' = a.sent
        /\ retry_sec' = a.retry
        /\ frameResets' = a.resets
        /\ healthy' = (healthy \/ a.healthy)
        /\ resetSince' = (resetSince \/ a.resets > 0)
    /\ UNCHANGED <<reconnect, sec, conn, message, gotPingOrText, retryAtStart,
                   attempts, startup, log, browser, pollerStarted, failedBefore,
                   nextCalls, sleepFor, connectedBefore, conVars>>

\* The sleep takes one second, whatever next() returned.
SleepDuration_Fixed(s) == InitialDelay

\* main.rs:268, Duration::from_secs(sec) handed to sleep.
SleepDuration(s) == s

\* main.rs:261-267, the end of the loop body up to the sleep.
EndAttempt ==
    /\ pc = "attempt_end"
    /\ \E o1 \in LineOut, o2 \in LineOut :
        LET report == ErrorReport(result, o1) IN
        IF report # <<>> /\ o1 # "ok"
        THEN /\ log' = log \o report
             /\ pc' = "returned_err"
             /\ failedBefore' = TRUE
             /\ UNCHANGED <<sec, retry_sec, resetSince, nextCalls, sleepFor>>
        ELSE /\ sec' = RetrySecNextValue(retry_sec)
             /\ retry_sec' = RetrySecNextState(retry_sec)
             /\ resetSince' = FALSE
             /\ log' = (log \o report) \o <<Entry("println", "connection_lost", o2)>>
             /\ pc' = After(o2, "sleeping")
             /\ failedBefore' = (failedBefore \/ IsErr(result))
             /\ nextCalls' = nextCalls + 1
             /\ sleepFor' = IF o2 = "ok"
                            THEN SleepDuration(RetrySecNextValue(retry_sec))
                            ELSE sleepFor
    /\ UNCHANGED <<reconnect, conn, result, message, event, frameSent,
                   frameResets, healthy, gotPingOrText, retryAtStart, attempts,
                   exitRequested, startup, browser, pollerStarted,
                   handlersActive, connectedBefore, conVars>>

\* main.rs:268-269, the sleep is over.
Wake ==
    /\ pc = "sleeping"
    /\ reconnect' = TRUE
    /\ pc' = "loop"
    /\ UNCHANGED <<retry_sec, sec, conn, result, message, event, frameSent,
                   frameResets, healthy, gotPingOrText, retryAtStart,
                   resetSince, attempts, exitRequested, startup, log, browser,
                   pollerStarted, failedBefore,
                   handlersActive, nextCalls, sleepFor, connectedBefore, conVars>>

\* main.rs:273-274
Prompt ==
    /\ pc = "prompt"
    /\ \E o \in LineOut :
        /\ log' = Append(log, Entry("println", "prompt", o))
        /\ pc' = After(o, "waiting")
    /\ UNCHANGED <<reconnect, retry_sec, sec, conn, result, message, event,
                   frameSent, frameResets, healthy, gotPingOrText, retryAtStart,
                   resetSince, attempts, exitRequested, startup, browser,
                   pollerStarted, failedBefore,
                   handlersActive, nextCalls, sleepFor, connectedBefore, conVars>>

\* main.rs:275-277
CtrlC ==
    /\ pc = "waiting"
    /\ pc' = "returned_ok"
    /\ UNCHANGED <<reconnect, retry_sec, sec, conn, result, message, event,
                   frameSent, frameResets, healthy, gotPingOrText, retryAtStart,
                   resetSince, attempts, exitRequested, startup, log, browser,
                   pollerStarted, failedBefore,
                   handlersActive, nextCalls, sleepFor, connectedBefore, conVars>>

SupNext ==
    \/ Banner
    \/ Args
    \/ SteamInit
    \/ ResolveUrl
    \/ AttemptStart
    \/ Connect
    \/ Read
    \/ Process
    \/ HandlerReturn
    \/ EndAttempt
    \/ Wake
    \/ Prompt
    \/ CtrlC

\* ------------------------------------------------------ console (console.rs)

Tasks == {"main", "poller"}

Other(t) == IF t = "main" THEN "poller" ELSE "main"

\* What the terminal shows: the last completed line, the line the cursor is
\* on and the cursor's column.
Blank == [prev |-> <<>>, cur |-> <<>>, col |-> 0]

Max(a, b) == IF a > b THEN a ELSE b

\* A character written at column `col` of `line` (columns from 0).
PutChar(line, col, c) ==
    [i \in 1..Max(Len(line), col + 1) |->
        IF i = col + 1 THEN c
        ELSE IF i <= Len(line) THEN line[i] ELSE " "]

\* The terminal takes one item: terminal::Clear(CurrentLine) erases the line
\* and leaves the cursor where it is, cursor::MoveToColumn(0) moves it to the
\* first column, a line break completes the line, a character is written at
\* the cursor.
Emit(scr, item) ==
    CASE item = "CLR" -> [scr EXCEPT !.cur = <<>>]
      [] item = "COL0" -> [scr EXCEPT !.col = 0]
      [] item = "NL" -> [prev |-> scr.cur, cur |-> <<>>, col |-> 0]
      [] OTHER -> [scr EXCEPT !.cur = PutChar(scr.cur, scr.col, item),
                              !.col = scr.col + 1]

RECURSIVE EmitAll(_, _)
EmitAll(scr, items) ==
    IF items = <<>> THEN scr
    ELSE EmitAll(Emit(scr, Head(items)), Tail(items))

\* Index of the last line break of `items`, 0 when there is none.
RECURSIVE LastBreak(_)
LastBreak(items) ==
    IF items = <<>> THEN 0
    ELSE IF items[Len(items)] = "NL" THEN Len(items)
    ELSE LastBreak(SubSeq(items, 1, Len(items) - 1))

\* io::stdout() is line buffered: a write is queued, and everything up to
\* the last line break written reaches the terminal.
StdoutWrite(buf, scr, items) ==
    LET all == buf \o items
        k == IF LastBreak(items) = 0 THEN 0 ELSE Len(buf) + LastBreak(items)
    IN [buf |-> SubSeq(all, k + 1, Len(all)),
        scr |-> EmitAll(scr, SubSeq(all, 1, k))]

\* io::stderr() is not buffered.
StderrWrite(buf, scr, items) == [buf |-> buf, scr |-> EmitAll(scr, items)]

StdoutFlush(buf, scr) == [buf |-> <<>>, scr |-> EmitAll(scr, buf)]

\* The texts the callers pass: a log line of println! / eprintln! is the
\* formatted message as the call site gives it, the text of printdoc! ends
\* with a line break, a status text has none.
LineTexts(t) == IF t = "main" THEN {<<"a", "a", "a">>} ELSE {<<"b">>}

DocTexts(t) == IF t = "main" THEN {<<"a", "a", "NL">>} ELSE {<<"b", "NL">>}

StatusTexts(t) == IF t = "main" THEN {<<"s", "s">>} ELSE {<<"t">>}

Ops == {"println", "eprintln", "printdoc", "print_update"}

TextsOf(t, op) ==
    CASE op = "print_update" -> StatusTexts(t)
      [] op = "printdoc" -> DocTexts(t)
      [] OTHER -> LineTexts(t)

NoCall == [op |-> "none", text |-> <<>>, out |-> "none"]

NotRendered == <<"-">>

ConInit ==
    /\ LAST_LINE = <<>>
    /\ lockedBy = "none"
    /\ stdoutBuf = <<>>
    /\ screen = Blank
    /\ cpc = [t \in Tasks |-> "idle"]
    /\ call = [t \in Tasks |-> NoCall]
    /\ rendered = [t \in Tasks |-> NotRendered]
    /\ calls = [t \in Tasks |-> 0]
    /\ ioErrors = 0
    /\ overlapped = [t \in Tasks |-> FALSE]

\* The first step of each function: fn_print_update starts with save_line,
\* fn_println, fn_eprintln and printdoc! with clear_line.
FirstStep(op) == IF op = "print_update" THEN "save_line" ELSE "clear_line"

\* A task enters one of the console macros.
BeginCall(t) ==
    /\ cpc[t] = "idle"
    /\ calls[t] < MaxCalls
    /\ t = "poller" => pollerStarted
    /\ \E op \in Ops : \E text \in TextsOf(t, op) :
        /\ call' = [call EXCEPT ![t] = [op |-> op, text |-> text, out |-> "running"]]
        /\ cpc' = [cpc EXCEPT ![t] = FirstStep(op)]
    /\ calls' = [calls EXCEPT ![t] = @ + 1]
    /\ rendered' = [rendered EXCEPT ![t] = NotRendered]
    /\ overlapped' = [u \in Tasks |->
                        IF u = t THEN cpc[Other(t)] # "idle"
                        ELSE overlapped[u] \/ cpc[u] # "idle"]
    /\ UNCHANGED <<LAST_LINE, lockedBy, stdoutBuf, screen, ioErrors, supVars>>

\* console.rs:11-16, clear_line queues the clear on stdout; no lock is taken.
clear_line(t) ==
    /\ cpc[t] = "clear_line"
    /\ stdoutBuf' = Append(stdoutBuf, "CLR")
    /\ cpc' = [cpc EXCEPT ![t] = "write"]
    /\ UNCHANGED <<LAST_LINE, lockedBy, screen, call, rendered, calls,
                   overlapped, ioErrors, supVars>>

\* console.rs:50, 65 and 86: the text goes to stdout (fn_println, printdoc!)
\* or to stderr (fn_eprintln) as the caller formatted it; no lock is taken.
write_fmt(t) ==
    /\ cpc[t] = "write"
    /\ LET w == IF call[t].op = "eprintln"
                THEN StderrWrite(stdoutBuf, screen, call[t].text)
                ELSE StdoutWrite(stdoutBuf, screen, call[t].text)
       IN /\ stdoutBuf' = w.buf
          /\ screen' = w.scr
    /\ cpc' = [cpc EXCEPT ![t] = "ul_lock"]
    /\ UNCHANGED <<LAST_LINE, lockedBy, call, rendered, calls, overlapped,
                   ioErrors, supVars>>

\* console.rs:19-26, save_line: lock, store, unlock.
save_line(t) ==
    /\ cpc[t] = "save_line"
    /\ lockedBy = "none"
    /\ LAST_LINE' = call[t].text
    /\ cpc' = [cpc EXCEPT ![t] = "ul_lock"]
    /\ UNCHANGED <<lockedBy, stdoutBuf, screen, call, rendered, calls,
                   overlapped, ioErrors, supVars>>

\* console.rs:32-34, update_line takes the lock; `data` is the status line.
update_line_lock(t) ==
    /\ cpc[t] = "ul_lock"
    /\ lockedBy = "none"
    /\ lockedBy' = t
    /\ rendered' = [rendered EXCEPT ![t] = LAST_LINE]
    /\ cpc' = [cpc EXCEPT ![t] = "ul_clear"]
    /\ UNCHANGED <<LAST_LINE, stdoutBuf, screen, call, calls, overlapped,
                   ioErrors, supVars>>

\* console.rs:35-37
update_line_clear(t) ==
    /\ cpc[t] = "ul_clear"
    /\ stdoutBuf' = Append(stdoutBuf, "CLR")
    /\ cpc' = [cpc EXCEPT ![t] = "ul_write"]
    /\ UNCHANGED <<LAST_LINE, lockedBy, screen, call, rendered, calls,
                   overlapped, ioErrors, supVars>>

\* console.rs:38-40
update_line_write(t) ==
    /\ cpc[t] = "ul_write"
    /\ LET w == StdoutWrite(stdoutBuf, screen, LAST_LINE)
       IN /\ stdoutBuf' = w.buf
          /\ screen' = w.scr
    /\ cpc' = [cpc EXCEPT ![t] = "ul_col0"]
    /\ UNCHANGED <<LAST_LINE, lockedBy, call, rendered, calls, overlapped,
                   ioErrors, supVars>>

\* console.rs:41-43
update_line_left(t) ==
    /\ cpc[t] = "ul_col0"
    /\ stdoutBuf' = Append(stdoutBuf, "COL0")
    /\ cpc' = [cpc EXCEPT ![t] = "ul_flush"]
    /\ UNCHANGED <<LAST_LINE, lockedBy, screen, call, rendered, calls,
                   overlapped, ioErrors, supVars>>

\* console.rs:44-46, the flush; the lock is released on return.
update_line_flush(t) ==
    /\ cpc[t] = "ul_flush"
    /\ LET w == StdoutFlush(stdoutBuf, screen)
       IN /\ stdoutBuf' = w.buf
          /\ screen' = w.scr
    /\ lockedBy' = "none"
    /\ call' = [call EXCEPT ![t].out = "ok"]
    /\ cpc' = [cpc EXCEPT ![t] = "ret"]
    /\ UNCHANGED <<LAST_LINE, rendered, calls, overlapped, ioErrors, supVars>>

Fallible == {"clear_line", "write", "ul_clear", "ul_write", "ul_col0", "ul_flush"}

\* A step of the call fails with an I/O error: `?` returns it to the caller
\* (and drops the lock guard); the print! inside printdoc! panics instead.
StepFails(t) ==
    /\ cpc[t] \in Fallible
    /\ ioErrors < MaxIoErrors
    /\ ioErrors' = ioErrors + 1
    /\ IF call[t].op = "printdoc" /\ cpc[t] = "write"
       THEN /\ cpc' = [u \in Tasks |-> "dead"]
            /\ call' = [call EXCEPT ![t].out = "panic"]
       ELSE /\ cpc' = [cpc EXCEPT ![t] = "ret"]
            /\ call' = [call EXCEPT ![t].out = "err"]
    /\ lockedBy' = IF lockedBy = t THEN "none" ELSE lockedBy
    /\ UNCHANGED <<LAST_LINE, stdoutBuf, screen, rendered, calls, overlapped,
                   supVars>>

\* The call has returned and the task goes on.
Return(t) ==
    /\ cpc[t] = "ret"
    /\ cpc' = [cpc EXCEPT ![t] = "idle"]
    /\ UNCHANGED <<LAST_LINE, lockedBy, stdoutBuf, screen, call, rendered,
                   calls, overlapped, ioErrors, supVars>>

ConNext ==
    \E t \in Tasks :
        \/ BeginCall(t)
        \/ clear_line(t)
        \/ write_fmt(t)
        \/ save_line(t)
        \/ update_line_lock(t)
        \/ update_line_clear(t)
        \/ update_line_write(t)
        \/ update_line_left(t)
        \/ update_line_flush(t)
        \/ StepFails(t)
        \/ Return(t)

\* The supervisor once the startup phase is over and the poller runs.
Started ==
    /\ pc = "loop"
    /\ reconnect = FALSE
    /\ retry_sec = RetrySecNew
    /\ sec = 0
    /\ conn = "none"
    /\ result = "none"
    /\ message = NoMsg
    /\ event = "none"
    /\ frameSent = <<>>
    /\ frameResets = 0
    /\ healthy = FALSE
    /\ gotPingOrText = FALSE
    /\ retryAtStart = RetrySecNew
    /\ resetSince = TRUE
    /\ attempts = 0
    /\ failedBefore = FALSE
    /\ exitRequested = FALSE
    /\ startup = "ok"
    /\ log = <<Entry("printdoc", "banner", "ok")>>
    /\ browser = 0
    /\ pollerStarted = TRUE
    /\ handlersActive = 0
    /\ nextCalls = 0
    /\ sleepFor = 0
    /\ connectedBefore = FALSE

\* ---------------------------------------------------------- specifications

Init == SupInit /\ ConInit

Next == SupNext

Spec == Init /\ [][Next]_vars

\* The primary task keeps running: tokio polls it whenever it can go on. The
\* connect and each read are bounded by their timeouts (main.rs:176, 210),
\* the sleep ends (main.rs:268), and the send of a Pong and the handler are
\* taken to return. Ctrl+C is the operator's and may never come.
Fairness ==
    /\ WF_vars(Banner) /\ WF_vars(Args) /\ WF_vars(SteamInit)
    /\ WF_vars(ResolveUrl) /\ WF_vars(AttemptStart)
    /\ WF_vars(Connect) /\ WF_vars(Read)
    /\ WF_vars(Process) /\ WF_vars(HandlerReturn)
    /\ WF_vars(EndAttempt) /\ WF_vars(Wake) /\ WF_vars(Prompt)

FairSpec == Init /\ [][Next]_vars /\ Fairness

ConsoleInit == Started /\ ConInit

ConsoleNext == ConNext

ConsoleSpec == ConsoleInit /\ [][ConsoleNext]_vars

\* ------------------------------------------------------------ shared terms

\* The supervisor has left the retry loop for the wait-for-exit prompt.
LeftLoop == pc \in {"prompt", "waiting", "returned_ok"}

\* The last console call of the episode failed.
LastFailed(l) == l # <<>> /\ l[Len(l)].out # "ok"

Logged(l, line, out) == \E i \in 1..Len(l) : l[i].line = line /\ l[i].out = out

ErrorLines ==
    {"steam_err", "startup_err", "classifier_err", "attempt_err",
     "update_notice", "conn_error_notice"}

\* Error reports of the episode that reached the console.
Reports(l) ==
    Cardinality({i \in 1..Len(l) : l[i].line \in ErrorLines /\ l[i].out = "ok"})

\* The episode holds a failure: of the startup phase, of the handshake or of
\* the attempt.
Failed ==
    \/ startup \in {"steam_failed", "url_failed"}
    \/ IsErr(result)
    \/ conn \in WsErrors \cup {"timeout"}

\* ---------------------------------------------------------------------- C1

\* C1: once the handler has returned exit-requested the supervisor is out of
\* the retry loop: the step that takes the handler's result goes to the
\* wait-for-exit prompt, and from then on no next() is called, no sleep is
\* taken and no connection attempt is started.
Thm_C1 ==
    /\ [](exitRequested => LeftLoop \/ pc = "returned_err")
    /\ [][(pc = "handling" /\ event' = "handler_exit") =>
            (exitRequested' /\ pc' = "prompt")]_vars
    /\ [][exitRequested => UNCHANGED <<retry_sec, sec, attempts, conn, reconnect>>]_vars

Wit_C1 == exitRequested /\ pc = "waiting" /\ Logged(log, "prompt", "ok")

\* ---------------------------------------------------------------------- C2

ClassifierFailed == Logged(log, "classifier_err", "err")

ClassifierPanicked ==
    Logged(log, "update_notice", "panic") \/ Logged(log, "conn_error_notice", "panic")

\* C2 as stated: a handshake rejected with status 400 never stops the retry
\* loop.
Orig_C2 == conn \in Http400 => ~LeftLoop

\* C2 amended: a handshake rejected with status 400 ends the retry loop
\* whenever handle_ws_error returns Ok: the supervisor goes to the
\* wait-for-exit prompt and next() is not called. The rejection is retried
\* only when the classifier's own error line cannot be written.
Thm_C2 ==
    conn \in Http400 =>
        CASE ClassifierPanicked -> pc = "panicked"
          [] ClassifierFailed ->
                /\ pc \in {"attempt_end", "sleeping", "loop", "returned_err"}
                /\ result = "err_console"
          [] OTHER ->
                /\ LeftLoop \/ (pc = "returned_err" /\ Logged(log, "prompt", "err"))
                /\ result = "none"
                /\ retry_sec = retryAtStart

Wit_C2 == conn = "http400_outdated" /\ pc = "waiting" /\ browser = 1

\* ---------------------------------------------------------------------- C3

\* A failure of the attempt happens in this step.
AttemptFailure ==
    \/ pc = "connecting" /\ conn' \in {"timeout", "http_other", "transport"}
    \/ pc = "reading" /\ message'.type = "Timeout"
    \/ pc = "process" /\ message.type = "RecvErr"
    \/ pc = "process" /\ message = Msg("Text", 0)
    \/ pc = "process" /\ event' = "pong_send_failed"
    \/ pc = "handling" /\ event' = "handler_error"

\* C3: every failure of an attempt other than a 400 rejection ends the
\* attempt with an error; the supervisor then writes the error line, takes
\* the delay of next() and sleeps, and after the sleep starts a new attempt
\* with the reconnect flag set. The process ends on the way only when a
\* console write fails.
Thm_C3 ==
    /\ [][AttemptFailure => (pc' = "attempt_end" /\ IsErr(result'))]_vars
    /\ [][(pc = "attempt_end" /\ IsErr(result)) =>
            \/ /\ pc' = "sleeping"
               /\ log' = log \o <<Entry("eprintln", "attempt_err", "ok"),
                                  Entry("println", "connection_lost", "ok")>>
               /\ sec' = RetrySecNextValue(retry_sec)
            \/ pc' = "returned_err" /\ LastFailed(log')]_vars
    /\ [][pc = "sleeping" => (pc' = "loop" /\ reconnect')]_vars
    /\ [][(pc = "loop" /\ reconnect) =>
            \/ pc' = "connecting"
            \/ pc' = "attempt_end" /\ LastFailed(log')]_vars

Wit_C3 ==
    /\ pc = "connecting"
    /\ reconnect
    /\ failedBefore
    /\ sec = InitialDelay
    /\ Logged(log, "reconnecting", "ok")

\* ---------------------------------------------------------------------- C4

\* The supervisor is about to retry or has stopped.
Decided == pc \in {"sleeping", "prompt"}

\* C4 as stated: every failure produces exactly one error report before the
\* supervisor retries or stops.
Orig_C4 == (Failed /\ Decided) => Reports(log) = 1

\* C4 amended: every failure produces exactly one error report before the
\* supervisor retries or stops, except a 400 rejection whose payload is a
\* recognized variant other than Outdated and carries no message, which
\* produces none; never two.
Thm_C4 ==
    (Failed /\ Decided) =>
        Reports(log) = IF conn = "http400_other_nomsg" THEN 0 ELSE 1

Wit_C4 == conn = "http400_bad_json" /\ pc = "prompt" /\ Reports(log) = 1

\* ---------------------------------------------------------------------- C5

\* The attempt connected and ended (close, end of stream, timeout or receive
\* error) before any Ping or Text frame arrived, and the supervisor is in the
\* sleep before the next attempt.
EndedSilent ==
    /\ pc = "sleeping"
    /\ conn = "ok"
    /\ message.type \in {"Close", "End", "Timeout", "RecvErr"}
    /\ ~gotPingOrText

\* C5 as stated: a connection established after failed attempts that ends
\* before any Ping or Text frame is followed by the initial delay.
Orig_C5 == (EndedSilent /\ failedBefore) => sec = InitialDelay

\* C5 amended: a successful handshake does not reset the backoff: a
\* connection that ends before any Ping or Text frame is followed by the
\* delay the backoff had reached when the attempt started.
Thm_C5 ==
    /\ EndedSilent => sec = retryAtStart
    /\ (pc \in {"reading", "process", "handling"} /\ ~healthy) =>
            retry_sec = retryAtStart

Wit_C5 == EndedSilent /\ failedBefore /\ sec > InitialDelay

\* ---------------------------------------------------------------------- C6

\* C6: after an attempt that answered a Ping or dispatched a Text frame with
\* a continue result, the delay before the next attempt is the initial one.
Thm_C6 == (pc = "sleeping" /\ healthy) => sec = InitialDelay

Wit_C6 == pc = "sleeping" /\ healthy /\ retryAtStart = MaxDelay

\* ---------------------------------------------------------------------- C7

\* C7: when the next frame is about to be read after a Ping, exactly one
\* Pong with the Ping's payload was sent, reset() was called once and the
\* backoff holds the initial delay; a Pong that was sent leaves the session
\* reading.
Thm_C7 ==
    /\ (pc = "reading" /\ message.type = "Ping") =>
            /\ event = "pong_sent"
            /\ frameSent = <<Pong(message.payload)>>
            /\ frameResets = 1
            /\ retry_sec = InitialDelay
    /\ event = "pong_sent" => pc = "reading"

Wit_C7 == pc = "reading" /\ message = Msg("Ping", 2) /\ frameSent = <<Pong(2)>>

\* --------------------------------------------------------------------- C10

\* C10: the backoff value stays within [InitialDelay, MaxDelay]; a delay
\* returned by next() is at most MaxDelay, is not below the delay returned
\* before it when no reset() came in between, and is InitialDelay when a
\* reset() did.
Thm_C10 ==
    /\ [](retry_sec \in InitialDelay..MaxDelay)
    /\ [](sec <= MaxDelay)
    /\ [][(pc = "attempt_end" /\ pc' = "sleeping") =>
            /\ sec' \in InitialDelay..MaxDelay
            /\ resetSince => sec' = InitialDelay
            /\ ~resetSince => sec' >= sec]_vars

Wit_C10 == pc = "sleeping" /\ sec = MaxDelay /\ retry_sec = MaxDelay /\ ~resetSince

\* ---------------------------------------------------------------------- C8

\* The task has made a terminal write step of its call (clear, text, status,
\* cursor move) and the call has not returned.
InWrite(t) ==
    IF call[t].op = "print_update"
    THEN cpc[t] \in {"ul_write", "ul_col0", "ul_flush"}
    ELSE cpc[t] \in {"write", "ul_lock", "ul_clear", "ul_write", "ul_col0", "ul_flush"}

\* The characters a terminal line shows. Every text of the model is made of
\* one letter of its own.
Letters(line) == {line[i] : i \in 1..Len(line)} \ {" "}

NoMixedLine ==
    /\ Cardinality(Letters(screen.prev)) <= 1
    /\ Cardinality(Letters(screen.cur)) <= 1

\* C8: the terminal write steps of one console call are never interleaved
\* with those of another call, and no terminal line shows content of two
\* calls.
Orig_C8 == ~(InWrite("main") /\ InWrite("poller")) /\ NoMixedLine

\* ---------------------------------------------------------------------- C9

\* The println! / eprintln! call of task t has returned Ok and no other call
\* ran alongside it.
LoggedAlone(t) ==
    /\ cpc[t] = "ret"
    /\ call[t].op \in {"println", "eprintln"}
    /\ call[t].out = "ok"
    /\ ~overlapped[t]
    /\ cpc[Other(t)] = "idle"

\* C9: when a log call completes with no concurrent caller, the logged text
\* is the last completed terminal line and the status line is shown on the
\* line beneath it.
Orig_C9 ==
    \A t \in Tasks :
        LoggedAlone(t) => (screen.prev = call[t].text /\ screen.cur = LAST_LINE)

\* --------------------------------------------------------------------- C11

\* The console calls that the end of an attempt appends when both succeed
\* or none is due.
ConnectionLost(out) == <<Entry("println", "connection_lost", out)>>

\* C11: a Close frame ends the attempt cleanly: the attempt returns Ok, no
\* error line is written for it, and the supervisor writes the
\* connection-lost line alone, sleeps for the delay next() returned, sets the
\* reconnect flag and starts a new attempt. The process ends on the way only
\* when the connection-lost line cannot be written.
Thm_C11 ==
    /\ [][(pc = "process" /\ message.type = "Close") =>
            /\ pc' = "attempt_end"
            /\ result' = "ok"
            /\ frameSent' = <<>>
            /\ UNCHANGED <<log, retry_sec>>]_vars
    /\ [](message.type = "Close" /\ pc # "process" =>
            /\ result = "ok"
            /\ ~\E i \in 1..Len(log) : log[i].line = "attempt_err")
    /\ [][(pc = "attempt_end" /\ message.type = "Close") =>
            \/ /\ pc' = "sleeping"
               /\ log' = log \o ConnectionLost("ok")
               /\ sec' = RetrySecNextValue(retry_sec)
               /\ sleepFor' = sec'
            \/ /\ pc' = "returned_err"
               /\ log' = log \o ConnectionLost("err")]_vars
    /\ [][(pc = "sleeping" /\ message.type = "Close") =>
            (pc' = "loop" /\ reconnect')]_vars
    /\ [][(pc = "loop" /\ message.type = "Close") =>
            /\ reconnect
            /\ attempts' = Bump(attempts)
            /\ pc' = "connecting" \/ (pc' = "attempt_end" /\ LastFailed(log'))]_vars

Wit_C11 ==
    /\ pc = "loop"
    /\ message.type = "Close"
    /\ reconnect
    /\ result = "ok"
    /\ log = <<Entry("println", "connected", "ok")>> \o ConnectionLost("ok")
    /\ sleepFor = sec
    /\ sec = InitialDelay

\* --------------------------------------------------------------------- C12

\* The primary task is inside an attempt: between the top of the loop body
\* and the end of the sleep.
AttemptPcs ==
    {"connecting", "reading", "process", "handling", "attempt_end", "sleeping"}

\* C12: the reconnect flag is false throughout the first attempt and true
\* throughout every later one, and once true it stays true; the
\* 'reconnecting' line opens every attempt but the first and is written
\* nowhere else; a handshake that succeeds writes 'connected' in the first
\* attempt and 'reconnected' in every later one, whether or not an earlier
\* attempt connected.
Thm_C12 ==
    /\ [](pc \in AttemptPcs => (reconnect <=> attempts > 1))
    /\ [][reconnect => reconnect']_vars
    /\ [](pc \in AttemptPcs =>
            /\ attempts > 1 <=> (log # <<>> /\ log[1].line = "reconnecting")
            /\ \A i \in 2..Len(log) : log[i].line # "reconnecting")
    /\ [](\A i \in 1..Len(log) :
            /\ log[i].line = "connected" => attempts = 1
            /\ log[i].line = "reconnected" => attempts > 1)
    /\ [][(pc = "connecting" /\ conn' = "ok") =>
            \E o \in LineOut :
                log' = Append(log, Entry("println",
                                         IF attempts = 1 THEN "connected"
                                         ELSE "reconnected", o))]_vars

Wit_C12 ==
    /\ pc = "reading"
    /\ attempts = 2
    /\ ~connectedBefore
    /\ log = <<Entry("println", "reconnecting", "ok"),
               Entry("println", "reconnected", "ok")>>

\* --------------------------------------------------------------------- C13

StartupFailed == startup \in {"steam_failed", "url_failed"}

\* The primary task is past the loop for good: at the prompt, or returned.
OutOfLoop == LeftLoop \/ pc \in {"returned_err", "panicked"}

\* A startup failure is reported and leads to the prompt with no attempt
\* ever made; the process ends before the prompt only when the report cannot
\* be written.
StartupFailureSkipsLoop ==
    /\ [](StartupFailed =>
            /\ attempts = 0
            /\ conn = "none"
            /\ OutOfLoop
            /\ Logged(log, "steam_err", "ok") \/ Logged(log, "startup_err", "ok")
               \/ LastFailed(log))
    /\ [][StartupFailed => UNCHANGED <<attempts, conn, retry_sec, sec, reconnect>>]_vars

\* C13 as stated: a startup failure is reported and goes to the prompt with
\* no attempt made, and once the retry loop has been entered only an exit
\* that the handler signalled ends it.
Orig_C13 ==
    /\ StartupFailed => (attempts = 0 /\ OutOfLoop)
    /\ (attempts > 0 /\ LeftLoop) => exitRequested

\* C13 amended: a startup failure is reported and goes to the prompt with
\* no attempt made. Once the retry loop has been entered it ends in three
\* ways only: the handler signalled an exit, a handshake was rejected with
\* status 400 and the classifier returned Ok, or a console write failed and
\* main returned the error.
Thm_C13 ==
    /\ StartupFailureSkipsLoop
    /\ []((attempts > 0 /\ LeftLoop) =>
            \/ exitRequested
            \/ conn \in Http400 /\ ~ClassifierFailed /\ ~ClassifierPanicked)
    /\ []((attempts > 0 /\ pc = "returned_err") => LastFailed(log))
    /\ []((attempts > 0 /\ pc = "panicked") => ClassifierPanicked)

Wit_C13 ==
    /\ startup = "url_failed"
    /\ pc = "waiting"
    /\ attempts = 0
    /\ Logged(log, "startup_err", "ok")

\* --------------------------------------------------------------------- C14

ClassifierLines == {"classifier_err", "update_notice", "conn_error_notice"}

IsClassifierLine(e) == e.line \in ClassifierLines

\* The console calls handle_ws_error made in this attempt.
ClassifierLog == SelectSeq(log, IsClassifierLine)

AllWritten(l) == \A i \in 1..Len(l) : l[i].out = "ok"

\* What the classifier writes for a 400 rejection when its writes succeed.
ExpectedNotice(err) ==
    CASE err \in {"http400_no_header", "http400_non_text", "http400_bad_json"} ->
            <<Entry("eprintln", "classifier_err", "ok")>>
      [] err = "http400_outdated" -> <<Entry("printdoc", "update_notice", "ok")>>
      [] err = "http400_other_msg" -> <<Entry("printdoc", "conn_error_notice", "ok")>>
      [] err = "http400_other_nomsg" -> <<>>

\* C14: for a 400 rejection the header alone decides what the classifier
\* does. With its console writes succeeding: a missing, non-text or
\* unparseable header gives one generic error line, an Outdated payload gives
\* the upgrade notice and then one browser-open call whose result is ignored,
\* another payload gives the connection-error notice when it carries a
\* message and nothing when it does not; the browser is opened in no other
\* case, and the classifier returns Ok in all of them. It returns an error
\* only when its own error line cannot be written.
Thm_C14 ==
    /\ [](conn \in Http400 /\ AllWritten(ClassifierLog) =>
            /\ ClassifierLog = ExpectedNotice(conn)
            /\ browser = IF conn = "http400_outdated" THEN 1 ELSE 0
            /\ result = "none"
            /\ pc \notin AttemptPcs)
    /\ [](conn \in Http400 /\ ~AllWritten(ClassifierLog) =>
            /\ browser = 0
            /\ \/ ClassifierPanicked /\ pc = "panicked"
               \/ ClassifierFailed /\ result = "err_console"
               \/ /\ Logged(log, "classifier_err", "ok")
                  /\ result = "none"
                  /\ pc \notin AttemptPcs)
    /\ \A err \in Http400 : \A w \in HandleWsError(err) :
            /\ AllWritten(w.calls) => (w.ret = "ok" /\ w.calls = ExpectedNotice(err))
            /\ w.ret \in {"ok", "panic", "err_console"}
            /\ w.ret = "err_console" =>
                   w.calls[Len(w.calls)] = Entry("eprintln", "classifier_err", "err")

Wit_C14 ==
    /\ conn = "http400_outdated"
    /\ ClassifierLog = ExpectedNotice(conn)
    /\ browser = 1
    /\ pc = "prompt"

\* --------------------------------------------------------------------- C15

\* Both timeouts end the attempt with a timeout error.
TimeoutsFail ==
    /\ [][(pc = "connecting" /\ conn' = "timeout") =>
            (pc' = "attempt_end" /\ result' = "err_connect_timeout")]_vars
    /\ [][(pc = "reading" /\ message'.type = "Timeout") =>
            (pc' = "attempt_end" /\ result' = "err_read_timeout")]_vars

\* C15 as stated: both timeouts end the attempt with a timeout error, and
\* whenever an attempt is under way the supervisor reaches the backoff sleep,
\* unless an exit is requested or a console write fails and ends the process.
Orig_C15 ==
    /\ TimeoutsFail
    /\ (pc \in {"connecting", "reading"}) ~>
            (pc = "sleeping" \/ exitRequested \/ pc \in {"returned_err", "panicked"})

\* C15 amended: both timeouts end the attempt with a timeout error, so the
\* supervisor never stays in the connect and never waits for one frame for
\* ever; every attempt that has ended is followed by the backoff sleep and
\* the start of a new attempt with the reconnect flag set, unless the write
\* of the error line or of the connection-lost line fails and main returns.
Thm_C15 ==
    /\ TimeoutsFail
    /\ (pc = "connecting") ~> (pc # "connecting")
    /\ (pc = "reading") ~> (pc # "reading")
    /\ (pc = "attempt_end") ~> (pc = "sleeping" \/ pc = "returned_err")
    /\ (pc = "sleeping") ~>
            (pc \in {"connecting", "attempt_end"} /\ reconnect /\ sleepFor = 0)

Wit_C15 ==
    /\ pc = "connecting"
    /\ reconnect
    /\ sec = InitialDelay
    /\ retry_sec = RetrySecNextState(InitialDelay)
    /\ attempts = 2
    /\ ~connectedBefore

\* --------------------------------------------------------------------- C16

\* A connection is open and its frames are being read.
SessionPcs == {"reading", "process", "handling"}

\* The frame in `message` ends the attempt or the loop.
EndsSession ==
    \/ pc = "process" /\ message.type \in {"Close", "RecvErr"}
    \/ pc = "process" /\ message = Msg("Text", 0)
    \/ pc = "process" /\ event' = "pong_send_failed"
    \/ pc = "handling" /\ event' \in {"handler_error", "handler_exit"}

\* C16: the frames of a connection are taken one at a time, in the order
\* read.next() yields them: a frame is read only when the one before it has
\* been dealt with and no call of the handler is under way, so at most one
\* call of the handler is ever under way and it is for the frame last read.
\* Once a frame has ended the attempt (Close, receive error, a text that does
\* not decode, a Pong that cannot be sent, handler error or exit) nothing
\* more is read, sent or dispatched until a new connection is made.
Thm_C16 ==
    /\ [](handlersActive \in {0, 1})
    /\ [](handlersActive = 1 <=> pc = "handling")
    /\ [](pc = "handling" => message = Msg("Text", 1))
    /\ [][message' # message =>
            /\ handlersActive = 0
            /\ \/ pc = "reading"
               \/ pc = "loop" /\ message' = NoMsg]_vars
    /\ [][handlersActive' > handlersActive =>
            (pc = "process" /\ message = Msg("Text", 1) /\ UNCHANGED message)]_vars
    /\ [][EndsSession => pc' \notin SessionPcs]_vars
    /\ [][pc \notin SessionPcs =>
            /\ handlersActive' = 0
            /\ frameSent' = <<>> \/ UNCHANGED frameSent
            /\ message' = message \/ pc' = "connecting" \/ pc' = "attempt_end"]_vars
    /\ [][(pc \notin SessionPcs /\ pc' \in SessionPcs) =>
            (pc = "connecting" /\ conn' = "ok" /\ message' = NoMsg)]_vars

Wit_C16 ==
    /\ pc = "sleeping"
    /\ message = Msg("Text", 1)
    /\ event = "handler_error"
    /\ handlersActive = 0
    /\ healthy

\* --------------------------------------------------------------------- C17

\* The print_update! call of task t has returned Ok.
StatusSet(t) ==
    /\ cpc[t] = "ret"
    /\ call[t].op = "print_update"
    /\ call[t].out = "ok"

\* C17: the status text a print_update! call renders is the text that call
\* stored, whatever the other task does meanwhile.
Orig_C17 == \A t \in Tasks : StatusSet(t) => rendered[t] = call[t].text

\* --------------------------------------------------------------------- C18

IgnoredKinds == {"Binary", "Pong", "Frame"}

\* C18: while a connection is being read the backoff state changes only by
\* the reset that follows a Pong that was sent or a handler call that
\* returned Ok(false). A Binary, Pong or fragment frame leaves the backoff
\* state as it is, sends nothing, does not call the handler and the next
\* frame is read; a Close frame leaves the backoff state as it is too.
Thm_C18 ==
    /\ [][(pc = "process" /\ message.type \in IgnoredKinds) =>
            /\ pc' = "reading"
            /\ retry_sec' = retry_sec
            /\ frameResets' = 0
            /\ frameSent' = <<>>
            /\ handlersActive' = 0
            /\ result' = "none"
            /\ UNCHANGED <<healthy, log, sec>>]_vars
    /\ [][(pc = "process" /\ message.type = "Close") =>
            (retry_sec' = retry_sec /\ frameResets' = 0)]_vars
    /\ [][(pc \in SessionPcs /\ (frameResets' > 0 \/ retry_sec' # retry_sec)) =>
            /\ frameResets' = 1
            /\ retry_sec' = RetrySecReset
            /\ \/ message.type = "Ping" /\ event' = "pong_sent"
               \/ message = Msg("Text", 1) /\ event' = "handler_continue"]_vars

Wit_C18 ==
    /\ pc = "reading"
    /\ message.type \in IgnoredKinds
    /\ retry_sec > InitialDelay
    /\ retry_sec = retryAtStart
    /\ ~healthy

\* --------------------------------------------------------------------- C19

\* C19: one task runs the attempts one after the other, so a connection is
\* opened only by the connect of an attempt and only when none is open. From
\* the start of an attempt until its end next() is not called; the end of the
\* attempt calls it once and sleeps for the seconds it returned; a new
\* attempt starts only after that sleep.
Thm_C19 ==
    /\ [][(pc \notin SessionPcs /\ pc' \in SessionPcs) =>
            (pc = "connecting" /\ conn # "ok" /\ conn' = "ok"
             /\ handlersActive = 0)]_vars
    /\ [](pc \in {"connecting"} \cup SessionPcs => (nextCalls = 0 /\ sleepFor = 0))
    /\ [][nextCalls' # nextCalls =>
            \/ pc = "attempt_end" /\ nextCalls' = 1
               /\ sec' = RetrySecNextValue(retry_sec)
               /\ retry_sec' = RetrySecNextState(retry_sec)
            \/ pc = "loop" /\ nextCalls' = 0]_vars
    /\ [](pc = "sleeping" => (nextCalls = 1 /\ sleepFor = sec /\ sec >= InitialDelay))
    /\ [](pc = "loop" /\ attempts > 0 => (nextCalls = 1 /\ sleepFor = sec))
    /\ [][attempts' # attempts =>
            /\ pc = "loop"
            /\ attempts = 0 \/ (nextCalls = 1 /\ sleepFor = sec /\ sleepFor > 0)]_vars
    /\ [][(pc = "loop" /\ attempts > 0) =>
            (nextCalls' = 0 /\ sleepFor' = 0 /\ pc' \in {"connecting", "attempt_end"})]_vars

Wit_C19 ==
    /\ pc = "loop"
    /\ attempts = 2
    /\ nextCalls = 1
    /\ sleepFor = sec
    /\ sec = RetrySecNextValue(RetrySecNextState(InitialDelay))

\* --------------------------------------------------------------------- C20

\* C20: when read.next() yields the end of the stream the attempt ends as
\* after a Close frame: it returns Ok, no error line is written, the backoff
\* state is not reset, and the supervisor writes the connection-lost line
\* alone, takes the delay of next(), sleeps, sets the reconnect flag and
\* starts a new attempt. The process ends on the way only when the
\* connection-lost line cannot be written.
Thm_C20 ==
    /\ [][(pc = "reading" /\ message'.type = "End") =>
            /\ pc' = OnMessage(Msg("Close", 0), TRUE, retry_sec).pc
            /\ result' = OnMessage(Msg("Close", 0), TRUE, retry_sec).result
            /\ pc' = "attempt_end"
            /\ result' = "ok"
            /\ frameResets' = 0
            /\ frameSent' = <<>>
            /\ UNCHANGED <<log, retry_sec, handlersActive>>]_vars
    /\ [](message.type = "End" =>
            /\ ~IsErr(result)
            /\ ~Logged(log, "attempt_err", "ok")
            /\ ~Logged(log, "attempt_err", "err"))
    /\ [][(pc = "attempt_end" /\ message.type = "End") =>
            /\ retry_sec' = RetrySecNextState(retry_sec)
            /\ sec' = RetrySecNextValue(retry_sec)
            /\ \/ pc' = "sleeping" /\ log' = log \o ConnectionLost("ok")
                  /\ sleepFor' = sec'
               \/ pc' = "returned_err" /\ log' = log \o ConnectionLost("err")]_vars
    /\ [][(pc = "sleeping" /\ message.type = "End") =>
            (pc' = "loop" /\ reconnect' /\ UNCHANGED retry_sec)]_vars
    /\ [][(pc = "loop" /\ message.type = "End") =>
            /\ reconnect
            /\ attempts' = Bump(attempts)
            /\ pc' = "connecting" \/ (pc' = "attempt_end" /\ LastFailed(log'))]_vars

Wit_C20 ==
    /\ pc = "loop"
    /\ message.type = "End"
    /\ reconnect
    /\ result = "ok"
    /\ ~healthy
    /\ retryAtStart > InitialDelay
    /\ retry_sec = RetrySecNextState(retryAtStart)
    /\ log = <<Entry("println", "reconnecting", "ok"),
               Entry("println", "reconnected", "ok")>> \o ConnectionLost("ok")

============================================================================
